---- MODULE Spec2Model ----
(***************************************************************************)
(* The phase timer of src/sw.js (the setup() function of the Vue app):     *)
(* status, remainingTime, timerInterval, settings, workTimeElapsed and     *)
(* nextRandomBreakAt, the handlers startTimer, stopTimer and saveSettings, *)
(* and the three interval callbacks (tick, the short-break countdown and   *)
(* the long-break countdown).  JavaScript runs one handler at a time, so   *)
(* each handler and each firing of an interval callback is one step.       *)
(*                                                                         *)
(* settings is what loadSettings returned at setup: no handler of the file *)
(* assigns it (saveSettings only writes it to localStorage), so it is      *)
(* drawn in Init and stays as it is.  onUnmounted (lines 338-340) ends the *)
(* component together with its state and is not a step of the model.       *)
(***************************************************************************)
EXTENDS Integers, Sequences, FiniteSets

VARIABLES
    status,             \* status.value
    remainingTime,      \* remainingTime.value, seconds
    timerInterval,      \* timerInterval.value: the handle last stored (0 = null)
    settings,           \* settings.value
    workTimeElapsed,    \* workTimeElapsed.value
    nextRandomBreakAt,  \* nextRandomBreakAt.value
    live,               \* the browser's installed intervals: handle -> callback
    captured,           \* currentWorkRemaining of each live short-break closure
    played,             \* the cues the latest handler asked audioManager for
    last,               \* history: the latest handler, the status it found and
                        \*   whether its localStorage.setItem returned
    ticks,              \* history: interval callbacks fired since startTimer
    breaks,             \* history: short breaks entered since startTimer
    breakEntryRemaining, \* history: remainingTime after the decrement of the
                        \*   tick that entered the latest short break
    breakTicks          \* history: firings of the latest short break's callback

vars == <<status, remainingTime, timerInterval, settings, workTimeElapsed,
          nextRandomBreakAt, live, captured, played, last, ticks,
          breaks, breakEntryRemaining, breakTicks>>

timerVars == <<status, remainingTime, timerInterval, workTimeElapsed,
               nextRandomBreakAt, live, captured>>

----------------------------------------------------------------------------
(* Bounds of the model *)

MaxWorkDuration == 2
MaxRandomBreak == 2
RandomDenominator == 256
RandomSamples == 4

(* Program constants *)

SecondsPerMinute == 60

IDLE == "IDLE"
WORK == "WORK"
SHORT_BREAK == "SHORT_BREAK"
LONG_BREAK == "LONG_BREAK"
STATUS == {IDLE, WORK, SHORT_BREAK, LONG_BREAK}

(* The scenarios of the specification's section 8 *)
DirectSettings ==
    [workDuration |-> 1, randomBreakMin |-> 1, randomBreakMax |-> 1,
     randomBreakDuration |-> 5, longBreakDuration |-> 1]

TwoMinuteSettings ==
    [workDuration |-> 10, randomBreakMin |-> 2, randomBreakMax |-> 2,
     randomBreakDuration |-> 30, longBreakDuration |-> 1]

BreakDurations == {5, 30}

(* What loadSettings can return: stored settings merged over the defaults. *)
(* All durations positive and randomBreakMin <= randomBreakMax.            *)
SettingsSet ==
    { s \in [workDuration : 1..MaxWorkDuration,
             randomBreakMin : 1..MaxRandomBreak,
             randomBreakMax : 1..MaxRandomBreak,
             randomBreakDuration : BreakDurations,
             longBreakDuration : {1}] :
        s.randomBreakMin <= s.randomBreakMax }
    \cup {DirectSettings, TwoMinuteSettings}

----------------------------------------------------------------------------
(* Pure helpers *)

isRunningWorkOnly(st) == st = WORK

isRunning(st) == st # IDLE

totalWorkSeconds(s) == s.workDuration * SecondsPerMinute

(* Math.random() returns k/RandomDenominator for a k of RandomValues, a  *)
(* value of [0, 1).  The steps draw k from RandomDraws, which holds the   *)
(* least and the greatest value and RandomSamples - 1 values in between.  *)
RandomValues == 0..(RandomDenominator - 1)

RandomDraws ==
    { (i * (RandomDenominator - 1)) \div RandomSamples : i \in 0..RandomSamples }

(* Math.floor(Math.random() * n) with Math.random() = k/RandomDenominator *)
floorRandomTimes(k, n) == (k * n) \div RandomDenominator

nextIntervalExclusive(k, s) ==
    LET min == s.randomBreakMin * SecondsPerMinute
        max == s.randomBreakMax * SecondsPerMinute
    IN  floorRandomTimes(k, max - min) + min

nextIntervalWithoutMin(k, s) ==
    LET min == s.randomBreakMin * SecondsPerMinute
        max == s.randomBreakMax * SecondsPerMinute
    IN  floorRandomTimes(k, max - min + 1)

(* nextInterval of calculateNextRandomBreak, line 221 *)
nextInterval(k, s) ==
    LET min == s.randomBreakMin * SecondsPerMinute
        max == s.randomBreakMax * SecondsPerMinute
    IN  floorRandomTimes(k, max - min + 1) + min

calculateNextRandomBreakFromZero(k, elapsed, s) == nextInterval(k, s)

(* calculateNextRandomBreak with workTimeElapsed = elapsed *)
calculateNextRandomBreak(k, elapsed, s) == elapsed + nextInterval(k, s)

timerCompleteEarly(remaining) == remaining <= 1

timerCompleteNegative(remaining) == remaining < 0

(* The test of tick at line 252 *)
timerComplete(remaining) == remaining <= 0

shouldEnterShortBreakInclusive(elapsed, nextAt, remaining, s) ==
    /\ elapsed >= nextAt
    /\ remaining >= s.randomBreakDuration

shouldEnterShortBreakLate(elapsed, nextAt, remaining, s) ==
    /\ elapsed > nextAt
    /\ remaining > s.randomBreakDuration

shouldEnterShortBreakWhileTimeLeft(elapsed, nextAt, remaining, s) ==
    /\ elapsed >= nextAt
    /\ remaining > 0

shouldEnterShortBreakUnguarded(elapsed, nextAt, remaining, s) ==
    elapsed >= nextAt

breakCompleteEarly(remaining) == remaining <= 1

(* The test of the short-break callback at line 281 *)
breakComplete(remaining) == remaining <= 0

(* The condition of tick's if at lines 264-265, on the updated values *)
shouldEnterShortBreak(elapsed, nextAt, remaining, s) ==
    /\ elapsed >= nextAt
    /\ remaining > s.randomBreakDuration

currentWorkRemainingAfterOverwrite(remaining, s) == s.randomBreakDuration

currentWorkRemainingBeforeDecrement(remaining, s) == remaining + 1

(* const currentWorkRemaining = remainingTime.value, taken before the overwrite *)
currentWorkRemaining(remaining, s) == remaining

clearIntervalMissing(l, h) == l

(* clearInterval(h): a handle that names no installed interval is ignored *)
clearInterval(l, h) == [k \in (DOMAIN l) \ {h} |-> l[k]]

(* The handle setInterval returns.  Handles are only compared for identity *)
(* and every handle returned is stored in timerInterval at once, so the    *)
(* least handle no installed interval has stands for a fresh one.          *)
newHandle(l) ==
    CHOOSE h \in 1..(Cardinality(DOMAIN l) + 1) :
        /\ h \notin DOMAIN l
        /\ \A g \in 1..(h - 1) : g \in DOMAIN l

setInterval(l, h, cb) == [k \in (DOMAIN l) \cup {h} |-> IF k = h THEN cb ELSE l[k]]

(* A closure lives as long as its interval does *)
dropCaptured(c, l) == [k \in (DOMAIN c) \cap (DOMAIN l) |-> c[k]]

setCaptured(c, h, v) == [k \in (DOMAIN c) \cup {h} |-> IF k = h THEN v ELSE c[k]]

NoIntervals == [k \in {} |-> "tick"]
NoClosures == [k \in {} |-> 0]

----------------------------------------------------------------------------
Init ==
    /\ status = IDLE
    /\ remainingTime = 0
    /\ timerInterval = 0
    /\ settings \in SettingsSet
    /\ workTimeElapsed = 0
    /\ nextRandomBreakAt = 0
    /\ live = NoIntervals
    /\ captured = NoClosures
    /\ played = << >>
    /\ last = [op |-> "setup", from |-> IDLE, wrote |-> FALSE]
    /\ ticks = 0
    /\ breaks = 0
    /\ breakEntryRemaining = 0
    /\ breakTicks = 0

----------------------------------------------------------------------------
(* The handlers' effects on the timer state and on the audio manager *)

stopTimerResetsElapsed ==
    /\ live' = clearInterval(live, timerInterval)
    /\ captured' = dropCaptured(captured, live')
    /\ status' = IDLE
    /\ remainingTime' = 0
    /\ workTimeElapsed' = 0
    /\ played' = << >>
    /\ UNCHANGED <<timerInterval, nextRandomBreakAt>>

stopTimerKeepsInterval ==
    /\ status' = IDLE
    /\ remainingTime' = 0
    /\ played' = << >>
    /\ UNCHANGED <<live, captured, timerInterval, workTimeElapsed, nextRandomBreakAt>>

stopTimerKeepsTime ==
    /\ live' = clearInterval(live, timerInterval)
    /\ captured' = dropCaptured(captured, live')
    /\ status' = IDLE
    /\ played' = << >>
    /\ UNCHANGED <<remainingTime, timerInterval, workTimeElapsed, nextRandomBreakAt>>

(* stopTimer, lines 245-249 *)
stopTimer ==
    /\ live' = clearInterval(live, timerInterval)
    /\ captured' = dropCaptured(captured, live')
    /\ status' = IDLE
    /\ remainingTime' = 0
    /\ played' = << >>
    /\ UNCHANGED <<timerInterval, workTimeElapsed, nextRandomBreakAt>>

installWithoutClear(cb, saved) ==
    LET h == newHandle(live)
    IN  /\ live' = setInterval(live, h, cb)
        /\ timerInterval' = h
        /\ captured' = IF cb = "shortBreak"
                       THEN setCaptured(captured, h, saved)
                       ELSE captured

(* clearInterval(timerInterval.value); timerInterval.value = setInterval(cb), *)
(* where cb closes over saved when it is the short-break callback             *)
replaceInterval(cb, saved) ==
    LET cleared == clearInterval(live, timerInterval)
        h == newHandle(cleared)
    IN  /\ live' = setInterval(cleared, h, cb)
        /\ timerInterval' = h
        /\ captured' = IF cb = "shortBreak"
                       THEN setCaptured(dropCaptured(captured, cleared), h, saved)
                       ELSE dropCaptured(captured, cleared)

enterShortBreakRecomputes(remaining, elapsed) ==
    /\ replaceInterval("shortBreak", currentWorkRemaining(remaining, settings))
    /\ status' = SHORT_BREAK
    /\ remainingTime' = settings.randomBreakDuration
    /\ workTimeElapsed' = elapsed
    /\ played' = <<"breakStart">>
    /\ \E k \in RandomDraws :
           nextRandomBreakAt' = calculateNextRandomBreak(k, elapsed, settings)

(* enterShortBreak, lines 271-296, called by tick with the decremented *)
(* remainingTime and the incremented workTimeElapsed                    *)
enterShortBreak(remaining, elapsed) ==
    /\ replaceInterval("shortBreak", currentWorkRemaining(remaining, settings))
    /\ status' = SHORT_BREAK
    /\ remainingTime' = settings.randomBreakDuration
    /\ workTimeElapsed' = elapsed
    /\ played' = <<"breakStart">>
    /\ UNCHANGED nextRandomBreakAt

handleTimerCompleteSilent ==
    IF status = WORK
    THEN /\ replaceInterval("longBreak", 0)
         /\ status' = LONG_BREAK
         /\ remainingTime' = settings.longBreakDuration * SecondsPerMinute
         /\ played' = << >>
         /\ UNCHANGED <<workTimeElapsed, nextRandomBreakAt>>
    ELSE stopTimer

(* handleTimerComplete, lines 298-317 *)
handleTimerComplete ==
    IF status = WORK
    THEN /\ replaceInterval("longBreak", 0)
         /\ status' = LONG_BREAK
         /\ remainingTime' = settings.longBreakDuration * SecondsPerMinute
         /\ played' = <<"finished">>
         /\ UNCHANGED <<workTimeElapsed, nextRandomBreakAt>>
    ELSE \* clearInterval at line 299, then stopTimer clears the same handle
         stopTimer

(* tick, lines 251-269 *)
tick ==
    IF timerComplete(remainingTime)
    THEN handleTimerComplete
    ELSE IF status = WORK
         THEN IF shouldEnterShortBreak(workTimeElapsed + 1, nextRandomBreakAt,
                                       remainingTime - 1, settings)
              THEN enterShortBreak(remainingTime - 1, workTimeElapsed + 1)
              ELSE /\ remainingTime' = remainingTime - 1
                   /\ workTimeElapsed' = workTimeElapsed + 1
                   /\ played' = << >>
                   /\ UNCHANGED <<status, timerInterval, nextRandomBreakAt,
                                  live, captured>>
         ELSE /\ remainingTime' = remainingTime - 1
              /\ played' = << >>
              /\ UNCHANGED <<status, timerInterval, workTimeElapsed,
                             nextRandomBreakAt, live, captured>>

(* The callback installed at line 280; saved is its currentWorkRemaining *)
shortBreakTick(saved) ==
    IF breakComplete(remainingTime)
    THEN /\ replaceInterval("tick", 0)
         /\ status' = WORK
         /\ remainingTime' = saved
         /\ \E k \in RandomDraws :
                nextRandomBreakAt' = calculateNextRandomBreak(k, workTimeElapsed, settings)
         /\ played' = <<"workStart">>
         /\ UNCHANGED workTimeElapsed
    ELSE /\ remainingTime' = remainingTime - 1
         /\ played' = << >>
         /\ UNCHANGED <<status, timerInterval, workTimeElapsed,
                        nextRandomBreakAt, live, captured>>

(* The callback installed at line 307 *)
longBreakTick ==
    IF remainingTime <= 0
    THEN stopTimer
    ELSE /\ remainingTime' = remainingTime - 1
         /\ played' = << >>
         /\ UNCHANGED <<status, timerInterval, workTimeElapsed,
                        nextRandomBreakAt, live, captured>>

(* The history variables: callbacks and short breaks of the running session *)
History(op, wrote) ==
    /\ last' = [op |-> op, from |-> status, wrote |-> wrote]
    /\ ticks' = IF status' = IDLE \/ op = "startTimer" THEN 0
                ELSE IF op \in {"tick", "shortBreakTick", "longBreakTick"}
                     THEN ticks + 1 ELSE ticks
    /\ breaks' = IF status' = IDLE \/ op = "startTimer" THEN 0
                 ELSE IF status # SHORT_BREAK /\ status' = SHORT_BREAK
                      THEN breaks + 1 ELSE breaks
    /\ breakEntryRemaining' =
           IF status' = IDLE \/ op = "startTimer" THEN 0
           ELSE IF op = "tick" /\ status' = SHORT_BREAK
                THEN remainingTime - 1 ELSE breakEntryRemaining
    /\ breakTicks' =
           IF status' = IDLE \/ op = "startTimer" THEN 0
           ELSE IF op = "tick" /\ status' = SHORT_BREAK THEN 0
           ELSE IF op = "shortBreakTick" THEN breakTicks + 1 ELSE breakTicks

----------------------------------------------------------------------------
(* The steps *)

(* startTimer, lines 227-243 *)
StartTimer ==
    /\ remainingTime' = totalWorkSeconds(settings)
    /\ workTimeElapsed' = 0
    /\ status' = WORK
    /\ \E k \in RandomDraws :
           nextRandomBreakAt' = calculateNextRandomBreak(k, workTimeElapsed', settings)
    /\ played' = <<"workStart">>
    /\ replaceInterval("tick", 0)
    /\ History("startTimer", FALSE)
    /\ UNCHANGED settings

StopTimer ==
    /\ stopTimer
    /\ History("stopTimer", FALSE)
    /\ UNCHANGED settings

(* saveSettings, lines 319-332; localStorage.setItem may throw *)
SaveSettings ==
    /\ IF isRunning(status)
       THEN stopTimer
       ELSE played' = << >> /\ UNCHANGED timerVars
    /\ \E wrote \in BOOLEAN : History("saveSettings", wrote)
    /\ UNCHANGED settings

(* An installed interval fires *)
Tick ==
    /\ \E h \in DOMAIN live : live[h] = "tick"
    /\ tick
    /\ History("tick", FALSE)
    /\ UNCHANGED settings

ShortBreakTick ==
    /\ \E h \in DOMAIN live :
           /\ live[h] = "shortBreak"
           /\ shortBreakTick(captured[h])
    /\ History("shortBreakTick", FALSE)
    /\ UNCHANGED settings

LongBreakTick ==
    /\ \E h \in DOMAIN live : live[h] = "longBreak"
    /\ longBreakTick
    /\ History("longBreakTick", FALSE)
    /\ UNCHANGED settings

Next ==
    \/ StartTimer
    \/ StopTimer
    \/ SaveSettings
    \/ Tick
    \/ ShortBreakTick
    \/ LongBreakTick

Spec == Init /\ [][Next]_vars

(* Sessions the user starts and then leaves alone: startTimer is called   *)
(* when the timer is idle and nothing else is.  The browser keeps firing  *)
(* an installed interval, once a second.                                  *)
StartSession ==
    /\ status = IDLE
    /\ StartTimer

IntervalFires ==
    \/ Tick
    \/ ShortBreakTick
    \/ LongBreakTick

SessionNext ==
    \/ StartSession
    \/ IntervalFires

SessionSpec == Init /\ [][SessionNext]_vars /\ WF_vars(IntervalFires)

----------------------------------------------------------------------------
(* Properties *)

WorkSeconds == settings.workDuration * SecondsPerMinute
MinInterval == settings.randomBreakMin * SecondsPerMinute
MaxInterval == settings.randomBreakMax * SecondsPerMinute

(* A Work phase was entered by the latest step *)
WorkEntered ==
    \/ last.op = "startTimer"
    \/ last.op = "shortBreakTick" /\ last.from = SHORT_BREAK /\ status = WORK

(* C1: exactly one interval is installed when status is WORK, SHORT_BREAK  *)
(* or LONG_BREAK, it is the one timerInterval holds and runs the callback  *)
(* of that status, and none is installed when status is IDLE.              *)
C1_OneCadence ==
    /\ status = IDLE => DOMAIN live = {}
    /\ status # IDLE => DOMAIN live = {timerInterval}
    /\ status = WORK => live[timerInterval] = "tick"
    /\ status = SHORT_BREAK => live[timerInterval] = "shortBreak"
    /\ status = LONG_BREAK => live[timerInterval] = "longBreak"

C1_Witness ==
    /\ last.op = "startTimer"
    /\ last.from = SHORT_BREAK
    /\ Cardinality(DOMAIN live) = 1

(* C2 as stated: with no short break so far, the tick that switches WORK  *)
(* to LONG_BREAK is tick number workDuration * 60 since startTimer.       *)
C2_TransitionAtTickN ==
    (last.op = "tick" /\ status = LONG_BREAK /\ breaks = 0) => ticks = WorkSeconds

(* C2 amended: with no short break so far, the first workDuration * 60    *)
(* ticks leave status WORK and count remainingTime down to 0, and the     *)
(* tick that switches WORK to LONG_BREAK is the next one, number          *)
(* workDuration * 60 + 1, which finds remainingTime = 0.                  *)
C2_TransitionAfterTickN ==
    /\ (breaks = 0 /\ status # IDLE /\ ticks <= WorkSeconds) =>
           (status = WORK /\ remainingTime = WorkSeconds - ticks)
    /\ (last.op = "tick" /\ status = LONG_BREAK /\ breaks = 0) =>
           ticks = WorkSeconds + 1

C2_Witness ==
    /\ last.op = "tick"
    /\ status = LONG_BREAK
    /\ breaks = 0
    /\ ticks = WorkSeconds + 1

(* C3: a short break is only ever entered with the remainingTime left by  *)
(* the entering tick's decrement, the value the break saves, strictly     *)
(* greater than randomBreakDuration.                                      *)
C3_NoBreakInFinalStretch ==
    status = SHORT_BREAK =>
        /\ breakEntryRemaining > settings.randomBreakDuration
        /\ captured[timerInterval] > settings.randomBreakDuration

(* The threshold is met and the guard alone keeps the tick from switching *)
C3_Witness ==
    /\ last.op = "tick"
    /\ status = WORK
    /\ workTimeElapsed >= nextRandomBreakAt
    /\ remainingTime > 0
    /\ remainingTime <= settings.randomBreakDuration

(* C4: when the short-break callback switches back to WORK, remainingTime *)
(* is the value the entering tick left, whatever the number of breaks.    *)
C4_RestoreIsLossless ==
    (last.op = "shortBreakTick" /\ last.from = SHORT_BREAK /\ status = WORK) =>
        remainingTime = breakEntryRemaining

C4_Witness ==
    /\ last.op = "shortBreakTick"
    /\ last.from = SHORT_BREAK
    /\ status = WORK
    /\ breaks >= 2
    /\ remainingTime = breakEntryRemaining

(* C5: at every entry into WORK, nextRandomBreakAt - workTimeElapsed lies *)
(* in [randomBreakMin * 60, randomBreakMax * 60], and the values of       *)
(* Math.random() make nextInterval take every integer of that range.      *)
C5_IntervalInRange ==
    /\ WorkEntered =>
           /\ MinInterval <= nextRandomBreakAt - workTimeElapsed
           /\ nextRandomBreakAt - workTimeElapsed <= MaxInterval
    /\ { nextInterval(k, settings) : k \in RandomValues } = MinInterval..MaxInterval

C5_Witness ==
    /\ WorkEntered
    /\ last.op = "shortBreakTick"
    /\ settings.randomBreakMin < settings.randomBreakMax
    /\ nextRandomBreakAt - workTimeElapsed = MaxInterval

(* C6: every stopTimer call, from any status, ends with status IDLE,      *)
(* remainingTime 0 and no interval installed, and a stopTimer call that   *)
(* follows a stopTimer call changes nothing of the timer.                 *)
C6_StopIsIdempotent ==
    [][last'.op = "stopTimer" =>
          /\ status' = IDLE
          /\ remainingTime' = 0
          /\ DOMAIN live' = {}
          /\ last.op = "stopTimer" => UNCHANGED <<timerVars, played>>]_vars

(* A stopTimer call made right after a stopTimer call *)
C6_Witness ==
    /\ last.op = "stopTimer"
    /\ last.from = IDLE
    /\ workTimeElapsed > 0
    /\ status = IDLE
    /\ remainingTime = 0

(* C7: startTimer, from any status, leaves status WORK, remainingTime =   *)
(* workDuration * 60, workTimeElapsed = 0, nextRandomBreakAt within       *)
(* [randomBreakMin * 60, randomBreakMax * 60], one work-start cue and one *)
(* installed interval, which runs tick.                                   *)
C7_StartIsFreshSession ==
    last.op = "startTimer" =>
        /\ status = WORK
        /\ remainingTime = WorkSeconds
        /\ workTimeElapsed = 0
        /\ nextRandomBreakAt \in MinInterval..MaxInterval
        /\ played = <<"workStart">>
        /\ DOMAIN live = {timerInterval}
        /\ live[timerInterval] = "tick"
        /\ DOMAIN captured = {}

C7_Witness ==
    /\ last.op = "startTimer"
    /\ last.from = LONG_BREAK
    /\ status = WORK
    /\ remainingTime = WorkSeconds

(* C8: saveSettings called with status other than IDLE ends with status   *)
(* IDLE, remainingTime 0 and no interval installed, whether or not the    *)
(* write to localStorage succeeded; called with status IDLE it leaves     *)
(* status, remainingTime, workTimeElapsed, nextRandomBreakAt and the      *)
(* installed intervals as they were.                                      *)
C8_SaveForcesStop ==
    [][last'.op = "saveSettings" =>
          IF status # IDLE
          THEN /\ status' = IDLE
               /\ remainingTime' = 0
               /\ DOMAIN live' = {}
          ELSE UNCHANGED timerVars]_vars

(* The write failed and the running timer was stopped all the same *)
C8_Witness ==
    /\ last.op = "saveSettings"
    /\ last.from = SHORT_BREAK
    /\ ~last.wrote
    /\ status = IDLE
    /\ DOMAIN live = {}

(* C9: with randomBreakMin >= workDuration no short break is ever         *)
(* entered: workTimeElapsed reaches nextRandomBreakAt only with           *)
(* remainingTime = 0, and WORK is followed by LONG_BREAK.                 *)
C9_NoBreakWhenIntervalCoversWork ==
    settings.randomBreakMin >= settings.workDuration =>
        /\ status # SHORT_BREAK
        /\ breaks = 0
        /\ (status = WORK /\ last.op = "tick" /\ workTimeElapsed >= nextRandomBreakAt) =>
               remainingTime = 0
        /\ status = LONG_BREAK => last.from \in {WORK, LONG_BREAK}

C9_Witness ==
    /\ settings = DirectSettings
    /\ last.op = "tick"
    /\ last.from = WORK
    /\ status = LONG_BREAK
    /\ breaks = 0

(* The settings of C10, with any long break *)
TwoMinuteScenario ==
    /\ settings.workDuration = 10
    /\ settings.randomBreakMin = 2
    /\ settings.randomBreakMax = 2
    /\ settings.randomBreakDuration = 30

(* C10 as stated: in the two-minute scenario the session has had exactly  *)
(* one short break when WORK gives way to LONG_BREAK.                     *)
C10_ExactlyOneBreak ==
    (TwoMinuteScenario /\ status = LONG_BREAK) => breaks = 1

(* C10 amended: in the two-minute scenario the session has had exactly    *)
(* four short breaks when WORK gives way to LONG_BREAK, entered at        *)
(* workTimeElapsed = 120, 240, 360 and 480.                               *)
C10_ExactlyFourBreaks ==
    TwoMinuteScenario =>
        /\ status = LONG_BREAK => breaks = 4
        /\ status = SHORT_BREAK =>
               /\ breaks \in 1..4
               /\ workTimeElapsed = 120 * breaks
        /\ status = WORK => breaks = workTimeElapsed \div 120
                            \/ (breaks = 4 /\ workTimeElapsed = 600)

C10_Witness ==
    /\ TwoMinuteScenario
    /\ last.op = "tick"
    /\ status = LONG_BREAK
    /\ breaks = 4

(* The short-break callback has just switched back to WORK *)
WorkResumed ==
    last.op = "shortBreakTick" /\ last.from = SHORT_BREAK /\ status = WORK

(* C11: in the two-minute scenario the first short break begins on the    *)
(* tick that makes workTimeElapsed 120, tick 120 of the session, neither  *)
(* earlier nor later, and saves 480; when it completes WORK resumes with  *)
(* remainingTime = 480 and workTimeElapsed still 120.                     *)
C11_FirstBreakAt120 ==
    TwoMinuteScenario =>
        /\ (status = WORK /\ breaks = 0) => workTimeElapsed < 120
        /\ (status = SHORT_BREAK /\ breaks = 1) =>
               /\ workTimeElapsed = 120
               /\ captured[timerInterval] = 480
               /\ breakEntryRemaining = 480
        /\ (last.op = "tick" /\ status = SHORT_BREAK /\ breaks = 1) => ticks = 120
        /\ (WorkResumed /\ breaks = 1) =>
               /\ remainingTime = 480
               /\ workTimeElapsed = 120

C11_Witness ==
    /\ TwoMinuteScenario
    /\ WorkResumed
    /\ breaks = 1
    /\ remainingTime = 480
    /\ workTimeElapsed = 120

(* C12 as stated: the callback of a short break fires randomBreakDuration *)
(* times, the firing that switches back to WORK included.                 *)
C12_BreakLastsDuration ==
    WorkResumed => breakTicks = settings.randomBreakDuration

(* C12 amended: the callback of a short break fires                       *)
(* randomBreakDuration + 1 times, the firing that switches back to WORK   *)
(* included: randomBreakDuration firings count remainingTime down to 0    *)
(* and the next one finds 0 and switches.                                 *)
C12_BreakLastsDurationPlusOne ==
    /\ WorkResumed => breakTicks = settings.randomBreakDuration + 1
    /\ status = SHORT_BREAK =>
           breakTicks = settings.randomBreakDuration - remainingTime

C12_Witness ==
    /\ WorkResumed
    /\ settings.randomBreakDuration = 30
    /\ breakTicks = 31

(* C13: a step plays exactly one cue, the one of the status it enters,    *)
(* when it enters WORK (startTimer, or the short-break callback switching *)
(* back), SHORT_BREAK or LONG_BREAK, and no cue otherwise.                *)
C13_OneCuePerEntry ==
    [][played' =
          IF last'.op = "startTimer" \/ (status = SHORT_BREAK /\ status' = WORK)
          THEN <<"workStart">>
          ELSE IF status # SHORT_BREAK /\ status' = SHORT_BREAK
          THEN <<"breakStart">>
          ELSE IF status # LONG_BREAK /\ status' = LONG_BREAK
          THEN <<"finished">>
          ELSE << >>]_vars

C13_Witness ==
    /\ last.op = "tick"
    /\ last.from = WORK
    /\ status = LONG_BREAK
    /\ played = <<"finished">>

(* C14 as stated: a step that takes workTimeElapsed from a value other    *)
(* than 0 to 0 starts WORK from IDLE.                                     *)
C14_ResetOnlyFromIdle ==
    [][(workTimeElapsed # 0 /\ workTimeElapsed' = 0) =>
          (status = IDLE /\ status' = WORK)]_vars

(* C14 amended: a step that takes workTimeElapsed from a value other than *)
(* 0 to 0 is a startTimer call, from whichever status it is made; no      *)
(* interval callback, stopTimer or saveSettings resets it.                *)
C14_ResetOnlyByStart ==
    [][(workTimeElapsed # 0 /\ workTimeElapsed' = 0) =>
          (last'.op = "startTimer" /\ status' = WORK)]_vars

(* startTimer called while the long break runs: workTimeElapsed was       *)
(* workDuration * 60 and is 0                                             *)
C14_Witness ==
    /\ last.op = "startTimer"
    /\ last.from = LONG_BREAK
    /\ workTimeElapsed = 0
    /\ breaks = 0

(* C15: nextRandomBreakAt changes only in a step that enters WORK         *)
(* (startTimer, or the short-break callback switching back), and such a   *)
(* step leaves one freshly computed value: workTimeElapsed plus an        *)
(* interval of [randomBreakMin * 60, randomBreakMax * 60].                *)
C15_ThresholdOnlyAtWorkEntry ==
    [][IF last'.op = "startTimer" \/ (status = SHORT_BREAK /\ status' = WORK)
       THEN nextRandomBreakAt' - workTimeElapsed' \in MinInterval..MaxInterval
       ELSE nextRandomBreakAt' = nextRandomBreakAt]_vars

(* The threshold met by the entering tick is still there in the break *)
C15_Witness ==
    /\ last.op = "tick"
    /\ status = SHORT_BREAK
    /\ nextRandomBreakAt = workTimeElapsed
    /\ breaks = 2

(* C16: remainingTime is never negative: a callback that finds 0          *)
(* completes the phase instead of decrementing.                           *)
C16_RemainingNonNegative == remainingTime >= 0

(* The long-break callback found 0 and stopped *)
C16_Witness ==
    /\ last.op = "longBreakTick"
    /\ last.from = LONG_BREAK
    /\ status = IDLE
    /\ remainingTime = 0

(* C17: a session left alone ends: a timer that is not idle becomes idle  *)
(* with no interval installed, and it becomes idle from LONG_BREAK only,  *)
(* which is entered from WORK only, so the session passes through         *)
(* LONG_BREAK once and has finitely many short breaks.                    *)
C17_SessionEnds ==
    /\ (status # IDLE) ~> (status = IDLE /\ DOMAIN live = {})
    /\ [][/\ (status # IDLE /\ status' = IDLE) => status = LONG_BREAK
          /\ (status # LONG_BREAK /\ status' = LONG_BREAK) => status = WORK
          /\ status = LONG_BREAK => status' \in {LONG_BREAK, IDLE}]_vars

(* The long break of a session with short breaks has run out *)
C17_Witness ==
    /\ last.op = "longBreakTick"
    /\ last.from = LONG_BREAK
    /\ status = IDLE
    /\ DOMAIN live = {}
    /\ workTimeElapsed = WorkSeconds
    /\ nextRandomBreakAt > MaxInterval

(* C18: in WORK remainingTime + workTimeElapsed = workDuration * 60, in   *)
(* SHORT_BREAK the saved remaining time + workTimeElapsed =               *)
(* workDuration * 60, and LONG_BREAK is only ever entered and run with    *)
(* workTimeElapsed = workDuration * 60.                                   *)
C18_WorkTimeConserved ==
    /\ status = WORK => remainingTime + workTimeElapsed = WorkSeconds
    /\ status = SHORT_BREAK =>
           /\ captured[timerInterval] + workTimeElapsed = WorkSeconds
           /\ breakEntryRemaining + workTimeElapsed = WorkSeconds
    /\ status = LONG_BREAK => workTimeElapsed = WorkSeconds

(* A tick of a Work phase resumed after a short break *)
C18_Witness ==
    /\ last.op = "tick"
    /\ status = WORK
    /\ breaks >= 1
    /\ remainingTime > 0
    /\ remainingTime + workTimeElapsed = WorkSeconds

(* C19: when WORK resumes after a short break the restored remainingTime  *)
(* is strictly greater than randomBreakDuration, hence positive, so the   *)
(* first tick of the resumed phase decrements and does not complete it.   *)
C19_ResumedWorkOutlastsBreak ==
    WorkResumed =>
        /\ remainingTime > settings.randomBreakDuration
        /\ remainingTime > 0
        /\ ~timerComplete(remainingTime)

(* The shortest stretch that can follow a break of 30 seconds here *)
C19_Witness ==
    /\ WorkResumed
    /\ settings.randomBreakDuration = 30
    /\ remainingTime <= 60
    /\ breaks = 1

(* C20: a short break is entered with workTimeElapsed equal to            *)
(* nextRandomBreakAt, never on a later tick; once workTimeElapsed has     *)
(* reached nextRandomBreakAt in WORK, remainingTime is at most            *)
(* randomBreakDuration, so no later tick of that phase enters a break.    *)
C20_BreakExactlyAtThreshold ==
    /\ status = SHORT_BREAK => workTimeElapsed = nextRandomBreakAt
    /\ (status = WORK /\ workTimeElapsed >= nextRandomBreakAt) =>
           remainingTime <= settings.randomBreakDuration

(* The threshold was passed with the guard false and no break followed *)
C20_Witness ==
    /\ last.op = "tick"
    /\ status = WORK
    /\ workTimeElapsed > nextRandomBreakAt
    /\ remainingTime < settings.randomBreakDuration
    /\ breaks = 0

====
